---- MODULE Spec2Model ----
(***************************************************************************)
(* Mentor / founder matching pipeline of NEXT_Canada_Code.py:              *)
(* load_mentor_data, load_founder_data, expand_*_by_capacity,              *)
(* build_bipartite_graph, run_maximum_cardinality_max_weight and the       *)
(* aggregation loop and summary of run_matching.                           *)
(*                                                                         *)
(* A Python str is a sequence of one-character strings, a csv row is a     *)
(* sequence of such cells, and a dict is a sequence of <<key, value>>      *)
(* entries with distinct keys, kept in insertion order.                    *)
(***************************************************************************)
EXTENDS Integers, Sequences, FiniteSets, TLC

VARIABLES
    pc,                     \* position in run_matching
    mentor_rows,            \* data rows of the mentor csv (after the header)
    founder_rows,           \* data rows of the founder csv (after the header)
    mentor_prefs,           \* dict mentor -> dict founder -> points
    mentor_caps,            \* dict mentor -> capacity
    founder_prefs,          \* dict founder -> dict mentor -> points
    founder_caps,           \* dict founder -> capacity
    expanded_mentor_prefs,  \* dict mentor slot -> preference dict
    slot_to_mentor,         \* dict mentor slot -> mentor
    expanded_founder_prefs, \* dict founder slot -> preference dict
    slot_to_founder,        \* dict founder slot -> founder
    G,                      \* the nx.Graph: nodes and weighted edges
    matched_edges,          \* the solver's result, not yet iterated part
    solver_edges,           \* the solver's result as returned
    used_pairs,             \* set of <<mentor, founder>>
    total_weight,           \* running sum of the kept pairs' weights
    pairs_data,             \* rows for the export, in order of discovery
    mentor_match_counts,    \* dict mentor -> number of kept pairs
    founder_match_counts,   \* dict founder -> number of kept pairs
    raised                  \* the exception that ended the run, or "none"

vars == <<pc, mentor_rows, founder_rows, mentor_prefs, mentor_caps,
          founder_prefs, founder_caps, expanded_mentor_prefs, slot_to_mentor,
          expanded_founder_prefs, slot_to_founder, G, matched_edges,
          solver_edges, used_pairs, total_weight, pairs_data,
          mentor_match_counts, founder_match_counts, raised>>

----------------------------------------------------------------------------
(* Bounds of the checked instances.                                        *)

\* most data rows in either csv file
MaxRows == 2
\* largest capacity digit written in a mentor row of the main instance
MaxCap == 2
\* number of leading pick columns that may be filled in (the rest are blank)
MaxPickCols == 1

----------------------------------------------------------------------------
(* Python dicts                                                            *)

EmptyDict == << >>

Range(s) == {s[i] : i \in 1..Len(s)}

\* list(d.keys()), in insertion order
Keys(d) == [i \in 1..Len(d) |-> d[i][1]]

KeySet(d) == {d[i][1] : i \in 1..Len(d)}

\* k in d
HasKey(d, k) == k \in KeySet(d)

\* d[k] for a key that is present
DictAt(d, k) == d[CHOOSE i \in 1..Len(d) : d[i][1] = k][2]

\* d.get(k, default)
DictGet(d, k, default) == IF HasKey(d, k) THEN DictAt(d, k) ELSE default

\* d[k] = v: a present key keeps its position, a new key goes last
DictSet(d, k, v) ==
    IF HasKey(d, k)
    THEN [i \in 1..Len(d) |-> IF d[i][1] = k THEN <<k, v>> ELSE d[i]]
    ELSE Append(d, <<k, v>>)

----------------------------------------------------------------------------
(* Python strings                                                          *)

DigitChars == <<"0", "1", "2", "3", "4", "5", "6", "7", "8", "9">>

IsDigit(c) == c \in Range(DigitChars)

\* value of a digit character
DigitVal(c) == (CHOOSE i \in 1..10 : DigitChars[i] = c) - 1

\* str(n) for n >= 0, as used by the f-string of a slot name
RECURSIVE IntToStr(_)
IntToStr(n) ==
    IF n < 10 THEN <<DigitChars[n + 1]>>
    ELSE IntToStr(n \div 10) \o <<DigitChars[(n % 10) + 1]>>

\* str.strip(): leading and trailing blanks removed
RECURSIVE LStrip(_)
LStrip(s) == IF s # << >> /\ Head(s) = " " THEN LStrip(Tail(s)) ELSE s

RECURSIVE RStrip(_)
RStrip(s) ==
    IF s # << >> /\ s[Len(s)] = " " THEN RStrip(SubSeq(s, 1, Len(s) - 1)) ELSE s

Strip(s) == RStrip(LStrip(s))

\* row[a:b] of Python, 0-based and half-open, clipped to the row
Slice(row, a, b) ==
    LET hi == IF b < Len(row) THEN b ELSE Len(row)
    IN  IF a >= hi THEN << >> ELSE SubSeq(row, a + 1, hi)

----------------------------------------------------------------------------
(* int(float(s)) of load_mentor_data                                       *)

AllDigits(s) == \A i \in 1..Len(s) : IsDigit(s[i])

\* value of a digit string, most significant digit first; 0 for the empty one
RECURSIVE DigitsVal(_)
DigitsVal(s) ==
    IF s = << >> THEN 0
    ELSE 10 * DigitsVal(SubSeq(s, 1, Len(s) - 1)) + DigitVal(s[Len(s)])

\* float(s) for the decimal notations without exponent, and inf and nan:
\* [kind |-> "num", neg, whole, frac], "inf", "nan", or "ValueError"
ParseFloat(s) ==
    LET t    == Strip(s)
        sgn  == t # << >> /\ Head(t) \in {"+", "-"}
        neg  == t # << >> /\ Head(t) = "-"
        body == IF sgn THEN Tail(t) ELSE t
        dots == {i \in 1..Len(body) : body[i] = "."}
    IN  IF body \in {<<"i", "n", "f">>, <<"i", "n", "f", "i", "n", "i", "t", "y">>}
        THEN [kind |-> "inf", neg |-> neg, whole |-> 0, frac |-> << >>]
        ELSE IF body = <<"n", "a", "n">>
        THEN [kind |-> "nan", neg |-> neg, whole |-> 0, frac |-> << >>]
        ELSE IF dots = {}
        THEN IF body # << >> /\ AllDigits(body)
             THEN [kind |-> "num", neg |-> neg, whole |-> DigitsVal(body),
                   frac |-> << >>]
             ELSE [kind |-> "ValueError", neg |-> neg, whole |-> 0, frac |-> << >>]
        ELSE LET d  == CHOOSE i \in dots : TRUE
                 ip == SubSeq(body, 1, d - 1)
                 fp == SubSeq(body, d + 1, Len(body))
             IN  IF Cardinality(dots) = 1 /\ AllDigits(ip) /\ AllDigits(fp)
                    /\ Len(ip) + Len(fp) > 0
                 THEN [kind |-> "num", neg |-> neg, whole |-> DigitsVal(ip),
                       frac |-> fp]
                 ELSE [kind |-> "ValueError", neg |-> neg, whole |-> 0,
                       frac |-> << >>]

\* the try/except around int(float(capacity_str.strip())): the capacity, or
\* the exception that escapes the except ValueError clause
ParseCapacity(capacity_str) ==
    LET f == ParseFloat(Strip(capacity_str))
    IN  CASE f.kind = "num" ->
               [ok |-> TRUE, capacity |-> IF f.neg THEN 0 - f.whole ELSE f.whole]
          [] f.kind = "inf" -> [ok |-> FALSE, capacity |-> 0]
          [] OTHER -> [ok |-> TRUE, capacity |-> 1]

----------------------------------------------------------------------------
(* 1. Loading                                                              *)

\* rank_to_points = {0: 5, 1: 4, 2: 3, 3: 2, 4: 1}
rank_to_points(i) == 5 - i

\* the loop over enumerate(picks): a later pick of the same name overwrites
RECURSIVE PrefsOfPicks(_, _, _)
PrefsOfPicks(picks, i, prefs_dict) ==
    IF i >= Len(picks) THEN prefs_dict
    ELSE LET p == Strip(picks[i + 1])
         IN  PrefsOfPicks(picks, i + 1,
                 IF p # << >> THEN DictSet(prefs_dict, p, rank_to_points(i))
                 ELSE prefs_dict)

\* load_mentor_data after the header row: the two dicts, or the exception
RECURSIVE LoadMentorRows(_, _, _)
LoadMentorRows(rows, prefs, caps) ==
    IF rows = << >> THEN [raised |-> "none", prefs |-> prefs, caps |-> caps]
    ELSE LET row == Head(rows)
         IN  IF row = << >> THEN LoadMentorRows(Tail(rows), prefs, caps)
             ELSE LET mentor_name  == Strip(row[1])
                      picks        == Slice(row, 1, 6)
                      capacity_str == IF Len(row) >= 7 THEN row[7] ELSE <<"1">>
                      parsed       == ParseCapacity(capacity_str)
                      prefs_dict   == PrefsOfPicks(picks, 0, EmptyDict)
                  IN  IF ~parsed.ok
                      THEN [raised |-> "OverflowError", prefs |-> prefs,
                            caps |-> caps]
                      ELSE LoadMentorRows(Tail(rows),
                               DictSet(prefs, mentor_name, prefs_dict),
                               DictSet(caps, mentor_name, parsed.capacity))

load_mentor_data(rows) == LoadMentorRows(rows, EmptyDict, EmptyDict)

\* load_founder_data after the header row
RECURSIVE LoadFounderRows(_, _)
LoadFounderRows(rows, prefs) ==
    IF rows = << >> THEN prefs
    ELSE LET row == Head(rows)
         IN  IF row = << >> THEN LoadFounderRows(Tail(rows), prefs)
             ELSE LET founder_name == Strip(row[1])
                      picks        == Slice(row, 1, 6)
                  IN  LoadFounderRows(Tail(rows),
                          DictSet(prefs, founder_name,
                                  PrefsOfPicks(picks, 0, EmptyDict)))

load_founder_data(rows) == LoadFounderRows(rows, EmptyDict)

----------------------------------------------------------------------------
(* 2. Expansion by capacity                                                *)

\* f"{name}_slot{i+1}"
slot_name(name, i) == name \o <<"_", "s", "l", "o", "t">> \o IntToStr(i + 1)

\* the inner loop "for i in range(capacity)" from index i on
RECURSIVE ExpandOne(_, _, _, _, _)
ExpandOne(name, prefs_dict, capacity, i, acc) ==
    IF i >= capacity THEN acc
    ELSE ExpandOne(name, prefs_dict, capacity, i + 1,
             [prefs   |-> DictSet(acc.prefs, slot_name(name, i), prefs_dict),
              slot_to |-> DictSet(acc.slot_to, slot_name(name, i), name)])

\* the outer loop over caps.items() from entry k on
RECURSIVE ExpandFrom(_, _, _, _)
ExpandFrom(prefs, caps, k, acc) ==
    IF k > Len(caps) THEN acc
    ELSE ExpandFrom(prefs, caps, k + 1,
             ExpandOne(caps[k][1], DictAt(prefs, caps[k][1]), caps[k][2], 0, acc))

\* mentors expanded with the founders' fixed capacity instead of their own
ExpandWithFixedCapacity(prefs, caps) ==
    ExpandFrom(prefs, [k \in 1..Len(caps) |-> <<caps[k][1], 2>>], 1,
               [prefs |-> EmptyDict, slot_to |-> EmptyDict])

expand_mentors_by_capacity(prefs, caps) ==
    ExpandFrom(prefs, caps, 1, [prefs |-> EmptyDict, slot_to |-> EmptyDict])

expand_founders_by_capacity(prefs, caps) ==
    ExpandFrom(prefs, caps, 1, [prefs |-> EmptyDict, slot_to |-> EmptyDict])

----------------------------------------------------------------------------
(* 3. The graph                                                            *)

\* overlap_bonus = 2
overlap_bonus == 2

\* founder_caps = {f: 2 for f in founder_prefs}
founder_capacity == 2

\* nx.Graph(): nodes is the node dict (node -> bipartite attribute), weight
\* maps each undirected edge, the set of its end nodes, to its weight
EmptyGraph == [nodes |-> EmptyDict, weight |-> [e \in {} |-> 0]]

\* G.add_nodes_from(slots, bipartite=side): a present node gets the new
\* attribute and keeps its place
RECURSIVE add_nodes_from(_, _, _)
add_nodes_from(g, slots, side) ==
    IF slots = << >> THEN g
    ELSE add_nodes_from([g EXCEPT !.nodes = DictSet(g.nodes, Head(slots), side)],
                        Tail(slots), side)

\* G.add_edge(u, v, weight=w): an edge that is present gets the new weight
add_edge(g, u, v, w) ==
    [g EXCEPT !.weight = [e \in (DOMAIN g.weight) \cup {{u, v}} |->
                             IF e = {u, v} THEN w ELSE g.weight[e]]]

\* the body of the two nested loops for one (ms, fs)
EdgeStep(g, emp, stm, efp, stf, ms, fs, bonus) ==
    LET mentor_name    == DictAt(stm, ms)
        founder_name   == DictAt(stf, fs)
        mentor_points  == DictGet(DictAt(emp, ms), founder_name, 0)
        founder_points == DictGet(DictAt(efp, fs), mentor_name, 0)
        total          == mentor_points + founder_points
    IN  IF mentor_points > 0 \/ founder_points > 0
        THEN add_edge(g, ms, fs,
                 IF mentor_points > 0 /\ founder_points > 0
                 THEN total + bonus ELSE total)
        ELSE g

\* "for ms in mentor_slots: for fs in founder_slots" from (i, j) on
RECURSIVE EdgeLoop(_, _, _, _, _, _, _, _, _, _)
EdgeLoop(g, emp, stm, efp, stf, mslots, fslots, i, j, bonus) ==
    IF i > Len(mslots) THEN g
    ELSE IF j > Len(fslots)
    THEN EdgeLoop(g, emp, stm, efp, stf, mslots, fslots, i + 1, 1, bonus)
    ELSE EdgeLoop(EdgeStep(g, emp, stm, efp, stf, mslots[i], fslots[j], bonus),
                  emp, stm, efp, stf, mslots, fslots, i, j + 1, bonus)

build_bipartite_graph(emp, stm, efp, stf, bonus) ==
    LET mentor_slots  == Keys(emp)
        founder_slots == Keys(efp)
        g0 == add_nodes_from(add_nodes_from(EmptyGraph, mentor_slots, 0),
                             founder_slots, 1)
    IN  EdgeLoop(g0, emp, stm, efp, stf, mentor_slots, founder_slots, 1, 1, bonus)

\* the edges of g
Edges(g) == DOMAIN g.weight

----------------------------------------------------------------------------
(* The matching solver                                                     *)

\* every set of pairwise disjoint edges of E among the nodes ns; a self-loop
\* is never matched
RECURSIVE MatchingsOn(_, _)
MatchingsOn(ns, E) ==
    IF ns = {} THEN {{}}
    ELSE LET v    == CHOOSE x \in ns : TRUE
             rest == ns \ {v}
             at_v == {e \in E : v \in e /\ e \subseteq ns /\ Cardinality(e) = 2}
         IN  MatchingsOn(rest, E)
             \cup UNION {{m \cup {e} : m \in MatchingsOn(rest \ e, E)} : e \in at_v}

Matchings(g) == MatchingsOn(KeySet(g.nodes), Edges(g))

\* total weight of a set of edges
RECURSIVE WeightOf(_, _)
WeightOf(g, m) ==
    IF m = {} THEN 0
    ELSE LET e == CHOOSE x \in m : TRUE IN g.weight[e] + WeightOf(g, m \ {e})

\* the greatest number of a non-empty finite set of numbers
Max(S) == CHOOSE x \in S : \A y \in S : y <= x

\* nx.max_weight_matching(G, maxcardinality): a matching of greatest weight,
\* among the matchings of greatest cardinality when maxcardinality is set;
\* which optimum is returned is the library's choice
max_weight_matching(g, maxcardinality) ==
    LET all   == Matchings(g)
        size  == Max({Cardinality(m) : m \in all})
        cands == IF maxcardinality
                 THEN {m \in all : Cardinality(m) = size}
                 ELSE all
        best  == Max({WeightOf(g, m) : m \in cands})
    IN  {m \in cands : WeightOf(g, m) = best}

\* the call without maxcardinality=True
MaxWeightOnly(g) == max_weight_matching(g, FALSE)

\* a maximum-cardinality matching chosen without regard to weight
MaxCardinalityOnly(g) ==
    LET all  == Matchings(g)
        size == Max({Cardinality(m) : m \in all})
    IN  {m \in all : Cardinality(m) = size}

\* every heaviest edge, whether or not two of them share a slot
HeaviestEdges(g) ==
    LET E == {e \in Edges(g) : Cardinality(e) = 2}
    IN  {{e \in E : \A d \in E : g.weight[d] <= g.weight[e]}}

run_maximum_cardinality_max_weight(g) == max_weight_matching(g, TRUE)

----------------------------------------------------------------------------
(* 4. Choice labels                                                        *)

choice_label(points) ==
    CASE points = 5 -> "First Choice"
      [] points = 4 -> "Second Choice"
      [] points = 3 -> "Third Choice"
      [] points = 2 -> "Fourth Choice"
      [] points = 1 -> "Fifth Choice"
      [] OTHER      -> "Unranked"

----------------------------------------------------------------------------
(* The csv files of the checked instances                                  *)

NameA == <<"A">>
NameB == <<"B">>
NameC == <<"C">>
NameD == <<"D">>
Blank == << >>

\* the filled-in pick columns of a row
PickLists(cells) == [1..MaxPickCols -> cells]

\* a mentor row: name, five pick columns, capacity column
MentorRow(name, picks, cap) ==
    <<name>> \o picks \o [i \in 1..(5 - Len(picks)) |-> Blank] \o <<cap>>

\* a founder row: name and pick columns
FounderRow(name, picks) == <<name>> \o picks

\* the files of at most MaxRows rows out of rowset, one row per name
Files(rowset) ==
    {f \in UNION {[1..k -> rowset] : k \in 0..MaxRows} :
        \A i, j \in 1..Len(f) : f[i][1] = f[j][1] => i = j}

\* mentor files with capacities 1..MaxCap, founder files
MentorFiles(names, cells) ==
    Files({MentorRow(n, p, IntToStr(c)) :
              n \in names, p \in PickLists(cells), c \in 1..MaxCap})

FounderFiles(names, cells) ==
    Files({FounderRow(n, p) : n \in names, p \in PickLists(cells)})

\* mentors A, B and founders C, D: no name on both sides
DisjointInputs ==
    MentorFiles({NameA, NameB}, {Blank, NameC, NameD})
        \X FounderFiles({NameC, NameD}, {Blank, NameA, NameB})

\* mentors A, B and founders A, B: names on both sides
SharedInputs ==
    MentorFiles({NameA, NameB}, {Blank, NameA, NameB})
        \X FounderFiles({NameA, NameB}, {Blank, NameA, NameB})

\* what the capacity column of a mentor row may hold
CapacityCells ==
    { Blank, <<"x">>, <<"0">>, <<" ", "2", " ">>, <<"-", "1">>,
      <<"2", ".", "9">>, <<"-", "0", ".", "5">>, <<"1", ".">>,
      <<"n", "a", "n">>, <<"i", "n", "f">> }

\* mentor files whose rows have any of the capacity cells, or end before the
\* capacity column; founders A (a mentor's name too) and C
CapacityInputs ==
    Files({MentorRow(n, p, c) :
              n \in {NameA, NameB},
              p \in PickLists({Blank, NameC}),
              c \in CapacityCells}
          \cup {<<n>> \o p : n \in {NameA, NameB},
                              p \in PickLists({Blank, NameC})})
        \X FounderFiles({NameA, NameC}, {Blank, NameA})

----------------------------------------------------------------------------
(* run_matching                                                            *)

Start(mfile, ffile) ==
    /\ pc = "load_mentors"
    /\ mentor_rows = mfile
    /\ founder_rows = ffile
    /\ mentor_prefs = EmptyDict
    /\ mentor_caps = EmptyDict
    /\ founder_prefs = EmptyDict
    /\ founder_caps = EmptyDict
    /\ expanded_mentor_prefs = EmptyDict
    /\ slot_to_mentor = EmptyDict
    /\ expanded_founder_prefs = EmptyDict
    /\ slot_to_founder = EmptyDict
    /\ G = EmptyGraph
    /\ matched_edges = {}
    /\ solver_edges = {}
    /\ used_pairs = {}
    /\ total_weight = 0
    /\ pairs_data = << >>
    /\ mentor_match_counts = EmptyDict
    /\ founder_match_counts = EmptyDict
    /\ raised = "none"

\* the two csv files as uploaded; nothing is loaded yet
Init ==
    \E files \in DisjointInputs \cup SharedInputs \cup CapacityInputs :
        Start(files[1], files[2])

\* line 204: mentor_prefs, mentor_caps = load_mentor_data(mentor_csv_path)
LoadMentors ==
    /\ pc = "load_mentors"
    /\ LET r == load_mentor_data(mentor_rows)
       IN  IF r.raised = "none"
           THEN /\ mentor_prefs' = r.prefs
                /\ mentor_caps' = r.caps
                /\ pc' = "load_founders"
                /\ UNCHANGED raised
           ELSE /\ raised' = r.raised
                /\ pc' = "raised"
                /\ UNCHANGED <<mentor_prefs, mentor_caps>>
    /\ UNCHANGED <<mentor_rows, founder_rows, founder_prefs, founder_caps,
                   expanded_mentor_prefs, slot_to_mentor, expanded_founder_prefs,
                   slot_to_founder, G, matched_edges, solver_edges, used_pairs,
                   total_weight, pairs_data, mentor_match_counts,
                   founder_match_counts>>

\* lines 205-208: founder_prefs = load_founder_data(...); founder_caps
LoadFounders ==
    /\ pc = "load_founders"
    /\ founder_prefs' = load_founder_data(founder_rows)
    /\ founder_caps' = [i \in 1..Len(founder_prefs') |->
                           <<founder_prefs'[i][1], founder_capacity>>]
    /\ pc' = "expand"
    /\ UNCHANGED <<mentor_rows, founder_rows, mentor_prefs, mentor_caps,
                   expanded_mentor_prefs, slot_to_mentor, expanded_founder_prefs,
                   slot_to_founder, G, matched_edges, solver_edges, used_pairs,
                   total_weight, pairs_data, mentor_match_counts,
                   founder_match_counts, raised>>

\* lines 211-212: the two expansions
Expand ==
    /\ pc = "expand"
    /\ LET m == expand_mentors_by_capacity(mentor_prefs, mentor_caps)
           f == expand_founders_by_capacity(founder_prefs, founder_caps)
       IN  /\ expanded_mentor_prefs' = m.prefs
           /\ slot_to_mentor' = m.slot_to
           /\ expanded_founder_prefs' = f.prefs
           /\ slot_to_founder' = f.slot_to
    /\ pc' = "build"
    /\ UNCHANGED <<mentor_rows, founder_rows, mentor_prefs, mentor_caps,
                   founder_prefs, founder_caps, G, matched_edges, solver_edges,
                   used_pairs, total_weight, pairs_data, mentor_match_counts,
                   founder_match_counts, raised>>

\* lines 215-218: G = build_bipartite_graph(...)
BuildGraph ==
    /\ pc = "build"
    /\ G' = build_bipartite_graph(expanded_mentor_prefs, slot_to_mentor,
                                  expanded_founder_prefs, slot_to_founder,
                                  overlap_bonus)
    /\ pc' = "match"
    /\ UNCHANGED <<mentor_rows, founder_rows, mentor_prefs, mentor_caps,
                   founder_prefs, founder_caps, expanded_mentor_prefs,
                   slot_to_mentor, expanded_founder_prefs, slot_to_founder,
                   matched_edges, solver_edges, used_pairs, total_weight,
                   pairs_data, mentor_match_counts, founder_match_counts, raised>>

\* line 220: matched_edges = run_maximum_cardinality_max_weight(G)
Match ==
    /\ pc = "match"
    /\ \E m \in run_maximum_cardinality_max_weight(G) :
          /\ matched_edges' = m
          /\ solver_edges' = m
    /\ pc' = "aggregate"
    /\ UNCHANGED <<mentor_rows, founder_rows, mentor_prefs, mentor_caps,
                   founder_prefs, founder_caps, expanded_mentor_prefs,
                   slot_to_mentor, expanded_founder_prefs, slot_to_founder, G,
                   used_pairs, total_weight, pairs_data, mentor_match_counts,
                   founder_match_counts, raised>>

\* lines 283-285: the counting loop over used_pairs, in the order given
RECURSIVE CountLoop(_, _, _, _)
CountLoop(order, i, mcounts, fcounts) ==
    IF i > Len(order) THEN [mentors |-> mcounts, founders |-> fcounts]
    ELSE LET mentor  == order[i][1]
             founder == order[i][2]
         IN  CountLoop(order, i + 1,
                 DictSet(mcounts, mentor, DictGet(mcounts, mentor, 0) + 1),
                 DictSet(fcounts, founder, DictGet(fcounts, founder, 0) + 1))

\* the membership test left out: every matched slot pair is kept
NeverUsed(pairs, mentor_name, founder_name) == FALSE

\* line 240: (mentor_name, founder_name) in used_pairs
AlreadyUsed(pairs, mentor_name, founder_name) ==
    <<mentor_name, founder_name>> \in pairs

\* the orders in which a set can be iterated
Orders(S) == {o \in [1..Cardinality(S) -> S] : Range(o) = S}

\* lines 229-273: one iteration of "for edge in matched_edges"; the set is
\* iterated in any order and list(edge) gives the two nodes in either order
AggregateEdge ==
    /\ pc = "aggregate"
    /\ \E edge \in matched_edges : \E nodeA \in edge :
          LET nodeB == CHOOSE n \in edge : n # nodeA
              ms    == IF HasKey(expanded_mentor_prefs, nodeA) THEN nodeA ELSE nodeB
              fs    == IF HasKey(expanded_mentor_prefs, nodeA) THEN nodeB ELSE nodeA
          IN  IF ~HasKey(slot_to_mentor, ms) \/ ~HasKey(slot_to_founder, fs)
              THEN /\ raised' = "KeyError"
                   /\ pc' = "raised"
                   /\ UNCHANGED <<matched_edges, used_pairs, total_weight,
                                  pairs_data>>
              ELSE LET mentor_name    == DictAt(slot_to_mentor, ms)
                       founder_name   == DictAt(slot_to_founder, fs)
                       w              == G.weight[{nodeA, nodeB}]
                       mentor_points  ==
                           DictGet(DictAt(expanded_mentor_prefs, ms), founder_name, 0)
                       founder_points ==
                           DictGet(DictAt(expanded_founder_prefs, fs), mentor_name, 0)
                   IN  /\ matched_edges' = matched_edges \ {edge}
                       /\ UNCHANGED <<pc, raised>>
                       /\ IF AlreadyUsed(used_pairs, mentor_name, founder_name)
                          THEN UNCHANGED <<used_pairs, total_weight, pairs_data>>
                          ELSE /\ used_pairs' =
                                     used_pairs \cup {<<mentor_name, founder_name>>}
                               /\ total_weight' = total_weight + w
                               /\ pairs_data' = Append(pairs_data,
                                     [mentor  |-> mentor_name,
                                      founder |-> founder_name,
                                      mentor_choice  |-> choice_label(mentor_points),
                                      founder_choice |-> choice_label(founder_points),
                                      points  |-> w])
    /\ UNCHANGED <<mentor_rows, founder_rows, mentor_prefs, mentor_caps,
                   founder_prefs, founder_caps, expanded_mentor_prefs,
                   slot_to_mentor, expanded_founder_prefs, slot_to_founder, G,
                   solver_edges, mentor_match_counts, founder_match_counts>>

\* lines 276-301: after the loop, the counts per mentor and per founder
Summarise ==
    /\ pc = "aggregate"
    /\ matched_edges = {}
    /\ \E order \in Orders(used_pairs) :
          LET c == CountLoop(order, 1, EmptyDict, EmptyDict)
          IN  /\ mentor_match_counts' = c.mentors
              /\ founder_match_counts' = c.founders
    /\ pc' = "done"
    /\ UNCHANGED <<mentor_rows, founder_rows, mentor_prefs, mentor_caps,
                   founder_prefs, founder_caps, expanded_mentor_prefs,
                   slot_to_mentor, expanded_founder_prefs, slot_to_founder, G,
                   matched_edges, solver_edges, used_pairs, total_weight,
                   pairs_data, raised>>

\* lines 289-292: the "=== Mentor Matches ===" lines as <<mentor, count, cap>>
MentorLines ==
    [i \in 1..Len(mentor_match_counts) |->
        <<mentor_match_counts[i][1], mentor_match_counts[i][2],
          DictGet(mentor_caps, mentor_match_counts[i][1], "?")>>]

\* lines 296-298: the "=== Founder Matches ===" lines as <<founder, count, 2>>
FounderLines ==
    [i \in 1..Len(founder_match_counts) |->
        <<founder_match_counts[i][1], founder_match_counts[i][2], 2>>]

Next ==
    \/ LoadMentors
    \/ LoadFounders
    \/ Expand
    \/ BuildGraph
    \/ Match
    \/ AggregateEdge
    \/ Summarise

Spec == Init /\ [][Next]_vars

----------------------------------------------------------------------------
(* Properties                                                              *)

MentorSlots == KeySet(expanded_mentor_prefs)
FounderSlots == KeySet(expanded_founder_prefs)

\* no name is a mentor's and a founder's
NoSharedName == KeySet(mentor_prefs) \cap KeySet(founder_prefs) = {}

\* the solver has just returned: no edge of its result is iterated yet (G
\* and solver_edges are not assigned again after this point)
AfterMatch == pc = "aggregate" /\ matched_edges = solver_edges

\* C1: the matching the solver returns has maximum cardinality: no matching
\* of the same graph has more edges.
MaximumCardinality ==
    AfterMatch =>
        \A m \in Matchings(G) : Cardinality(m) <= Cardinality(solver_edges)

\* the case of C1: some smaller matching of the graph is heavier than the
\* returned one, so that cardinality was preferred to weight
MaximumCardinalityWitness ==
    /\ AfterMatch
    /\ NoSharedName
    /\ \E m \in Matchings(G) :
          /\ Cardinality(m) < Cardinality(solver_edges)
          /\ WeightOf(G, m) > WeightOf(G, solver_edges)

\* C2: among the matchings of the graph with as many edges as the returned
\* one, none has strictly greater total weight.
MaximumWeightAtCardinality ==
    AfterMatch =>
        \A m \in Matchings(G) :
            Cardinality(m) = Cardinality(solver_edges)
                => WeightOf(G, m) <= WeightOf(G, solver_edges)

\* the case of C2: another matching of the same cardinality is strictly lighter
MaximumWeightWitness ==
    /\ AfterMatch
    /\ NoSharedName
    /\ \E m \in Matchings(G) :
          /\ Cardinality(m) = Cardinality(solver_edges)
          /\ WeightOf(G, m) < WeightOf(G, solver_edges)

\* C3: the returned edges are a valid matching: each is an edge of the graph
\* joining a mentor slot and a founder slot, and no slot is in two of them.
ValidMatching ==
    AfterMatch =>
        /\ solver_edges \subseteq Edges(G)
        /\ \A e \in solver_edges :
              \E u \in e, v \in e :
                  u # v /\ e = {u, v} /\ u \in MentorSlots /\ v \in FounderSlots
        /\ \A e, d \in solver_edges : e # d => e \cap d = {}

\* the case of C3: two edges are returned although some slot has two edges
\* of the graph to choose from
ValidMatchingWitness ==
    /\ AfterMatch
    /\ NoSharedName
    /\ Cardinality(solver_edges) >= 2
    /\ \E e, d \in Edges(G) : e # d /\ e \cap d # {} /\ e \in solver_edges

\* the points a participant's preference dict gives to a name, 0 if absent
PointsFor(prefs, who, whom) == DictGet(DictAt(prefs, who), whom, 0)

\* C4: for every (mentor slot, founder slot) pair the graph has an edge if
\* and only if one of the two parents ranks the other, and its weight is
\* mentor_points + founder_points, plus overlap_bonus when both are nonzero;
\* so every weight is positive and depends on the parent pair only.
EdgeWeightLaw ==
    pc = "match" =>
        \A ms \in MentorSlots, fs \in FounderSlots :
            LET mentor_name    == DictAt(slot_to_mentor, ms)
                founder_name   == DictAt(slot_to_founder, fs)
                mentor_points  == PointsFor(mentor_prefs, mentor_name, founder_name)
                founder_points == PointsFor(founder_prefs, founder_name, mentor_name)
                both           == mentor_points # 0 /\ founder_points # 0
            IN  /\ {ms, fs} \in Edges(G) <=> (mentor_points # 0 \/ founder_points # 0)
                /\ {ms, fs} \in Edges(G) =>
                      /\ G.weight[{ms, fs}] = mentor_points + founder_points
                                              + (IF both THEN overlap_bonus ELSE 0)
                      /\ G.weight[{ms, fs}] > 0

\* one side's expansion: every slot maps to a participant, and every
\* participant has exactly capacity slots, all carrying its preference dict
SlotsPerParticipant(prefs, caps, expanded, slot_to) ==
    /\ \A s \in KeySet(slot_to) : DictAt(slot_to, s) \in KeySet(caps)
    /\ KeySet(expanded) = KeySet(slot_to)
    /\ \A k \in 1..Len(caps) :
          LET name  == caps[k][1]
              slots == {s \in KeySet(slot_to) : DictAt(slot_to, s) = name}
          IN  /\ Cardinality(slots) = caps[k][2]
              /\ \A s \in slots : DictAt(expanded, s) = DictAt(prefs, name)

\* C5: after the two expansions every participant has exactly capacity
\* slots, each mapping back to it and carrying its preference dict.
SlotCountEqualsCapacity ==
    pc = "build" =>
        /\ SlotsPerParticipant(mentor_prefs, mentor_caps,
                               expanded_mentor_prefs, slot_to_mentor)
        /\ SlotsPerParticipant(founder_prefs, founder_caps,
                               expanded_founder_prefs, slot_to_founder)

\* the keys of the pair list, in order
PairKeys == [i \in 1..Len(pairs_data) |-> <<pairs_data[i].mentor, pairs_data[i].founder>>]

RECURSIVE SumPoints(_, _)
SumPoints(rows, i) ==
    IF i > Len(rows) THEN 0 ELSE rows[i].points + SumPoints(rows, i + 1)

\* the parent pair the loop body derives from an edge read as (nodeA, nodeB),
\* where both lookups succeed
Resolves(nodeA, nodeB, pair) ==
    LET ms == IF HasKey(expanded_mentor_prefs, nodeA) THEN nodeA ELSE nodeB
        fs == IF HasKey(expanded_mentor_prefs, nodeA) THEN nodeB ELSE nodeA
    IN  /\ HasKey(slot_to_mentor, ms)
        /\ HasKey(slot_to_founder, fs)
        /\ pair = <<DictAt(slot_to_mentor, ms), DictAt(slot_to_founder, fs)>>

\* C6: the pair list has no duplicate (mentor, founder) key: it lists the
\* kept pairs once each, the total synergy is the sum of the listed scores,
\* and at the end every matched slot pair's parent pair is listed.
NoDuplicatePairs ==
    pc \in {"aggregate", "done"} =>
        /\ \A i, j \in 1..Len(pairs_data) : PairKeys[i] = PairKeys[j] => i = j
        /\ Range(PairKeys) = used_pairs
        /\ total_weight = SumPoints(pairs_data, 1)
        /\ pc = "done" =>
              \A e \in solver_edges : \E nodeA \in e, nodeB \in e, p \in used_pairs :
                  nodeA # nodeB /\ Resolves(nodeA, nodeB, p)

\* the case of C6: matched slot pairs were collapsed, the result has fewer
\* pairs than the solver matched edges
NoDuplicatePairsWitness ==
    /\ pc = "done"
    /\ NoSharedName
    /\ Len(pairs_data) >= 1
    /\ Len(pairs_data) < Cardinality(solver_edges)

\* the pairs with interest on at least one side, at participant level
Interested ==
    {p \in KeySet(mentor_prefs) \X KeySet(founder_prefs) :
        \/ PointsFor(mentor_prefs, p[1], p[2]) > 0
        \/ PointsFor(founder_prefs, p[2], p[1]) > 0}

\* the sets of interested pairs in which no participant exceeds its capacity
Assignments ==
    {S \in SUBSET Interested :
        \A p \in S :
            /\ Cardinality({q \in S : q[1] = p[1]}) <= DictAt(mentor_caps, p[1])
            /\ Cardinality({q \in S : q[2] = p[2]}) <= DictAt(founder_caps, p[2])}

\* C7: the number of pairs in the result equals the greatest number of
\* distinct pairs of any participant-level assignment within the capacities.
\* Stated for the results of the inputs in which no name is on both sides,
\* which are part of the inputs the claim covers.
PairCountIsOptimal ==
    (pc = "done" /\ NoSharedName) =>
        Len(pairs_data) = Max({Cardinality(S) : S \in Assignments})

\* number of listed pairs that contain the mentor / the founder
MentorCount(m) == Cardinality({i \in 1..Len(pairs_data) : pairs_data[i].mentor = m})
FounderCount(f) == Cardinality({i \in 1..Len(pairs_data) : pairs_data[i].founder = f})

NoFatalPath ==
    /\ pc = "raised" => raised = "OverflowError"
    /\ (pc = "done" /\ (mentor_prefs = EmptyDict \/ founder_prefs = EmptyDict)) =>
          (pairs_data = << >> /\ total_weight = 0 /\ used_pairs = {})

\* C10: load_mentor_data does not fail on a capacity cell and every loaded
\* capacity is at least 1.
CapacityAtLeastOne ==
    /\ raised # "OverflowError"
    /\ pc # "load_mentors" => \A k \in 1..Len(mentor_caps) : mentor_caps[k][2] >= 1

\* lines 229-273: the body of "for edge in matched_edges" for the edge whose
\* nodes list(edge) yields as nodeA, nodeB, on the loop's variables so far
LoopBody(acc, nodeA, nodeB) ==
    LET ms == IF HasKey(expanded_mentor_prefs, nodeA) THEN nodeA ELSE nodeB
        fs == IF HasKey(expanded_mentor_prefs, nodeA) THEN nodeB ELSE nodeA
    IN  IF acc.raised # "" THEN acc
        ELSE IF ~HasKey(slot_to_mentor, ms) \/ ~HasKey(slot_to_founder, fs)
        THEN [acc EXCEPT !.raised = "KeyError"]
        ELSE LET mentor_name    == DictAt(slot_to_mentor, ms)
                 founder_name   == DictAt(slot_to_founder, fs)
                 w              == G.weight[{nodeA, nodeB}]
                 mentor_points  ==
                     DictGet(DictAt(expanded_mentor_prefs, ms), founder_name, 0)
                 founder_points ==
                     DictGet(DictAt(expanded_founder_prefs, fs), mentor_name, 0)
             IN  IF AlreadyUsed(acc.used_pairs, mentor_name, founder_name)
                 THEN acc
                 ELSE [acc EXCEPT
                         !.used_pairs = @ \cup {<<mentor_name, founder_name>>},
                         !.total_weight = @ + w,
                         !.pairs_data = Append(@,
                             [mentor  |-> mentor_name,
                              founder |-> founder_name,
                              mentor_choice  |-> choice_label(mentor_points),
                              founder_choice |-> choice_label(founder_points),
                              points  |-> w])]

\* lines 222-273: the whole loop over the edges in the iteration "it", a
\* sequence of <<nodeA, nodeB>>, from the initial values of lines 222-227
RECURSIVE RunLoop(_, _, _)
RunLoop(it, i, acc) ==
    IF i > Len(it) THEN acc
    ELSE RunLoop(it, i + 1, LoopBody(acc, it[i][1], it[i][2]))

\* line 229: the ways a set of edges can be iterated, each edge once, in any
\* order and with list(edge) yielding its two nodes in either order
Iterations(M) ==
    LET oriented == {<<a, b>> \in (UNION M) \X (UNION M) : a # b /\ {a, b} \in M}
    IN  {it \in [1..Cardinality(M) -> oriented] :
            {{it[i][1], it[i][2]} : i \in 1..Cardinality(M)} = M}

\* lines 222-227
LoopStart ==
    [raised |-> "", used_pairs |-> {}, total_weight |-> 0, pairs_data |-> << >>]

\* the loop as one computation agrees with the loop taken edge by edge: a
\* finished run is the loop over some iteration of the solver's edges
LoopAgreesWithSteps ==
    pc = "done" =>
        \E it \in Iterations(solver_edges) :
            LET r == RunLoop(it, 1, LoopStart)
            IN  /\ r.raised = ""
                /\ r.pairs_data = pairs_data
                /\ r.total_weight = total_weight
                /\ r.used_pairs = used_pairs

\* C11: a second run on the same input, in which the solver returns the same
\* edges, gives the result of the first run whatever the order in which the
\* edge set and the set of pairs are iterated: the same pair records in the
\* same order, the same total synergy and the same utilization summary.
\* Stated for inputs with no name on both sides.
Idempotence ==
    (pc = "done" /\ NoSharedName) =>
        \A it \in Iterations(solver_edges) :
            LET r == RunLoop(it, 1, LoopStart)
            IN  /\ r.raised = ""
                /\ r.pairs_data = pairs_data
                /\ r.total_weight = total_weight
                /\ \A order \in Orders(r.used_pairs) :
                      LET c == CountLoop(order, 1, EmptyDict, EmptyDict)
                      IN  /\ c.mentors = mentor_match_counts
                          /\ c.founders = founder_match_counts

\* C12: the utilization summary of a finished run has a line for every
\* mentor and every founder of the input, with the number of pairs that
\* contain the participant against its capacity, so a participant in no
\* pair has a line with the count 0; and no run with names on one side
\* only ends in an exception of the loop.
SummaryCoversEveryParticipant ==
    /\ (pc = "raised" /\ NoSharedName) => raised = "OverflowError"
    /\ pc = "done" =>
          /\ \A m \in KeySet(mentor_caps) :
                <<m, MentorCount(m), DictAt(mentor_caps, m)>> \in Range(MentorLines)
          /\ \A f \in KeySet(founder_caps) :
                <<f, FounderCount(f), founder_capacity>> \in Range(FounderLines)

====
